---- MODULE Spec2Model ----
(***************************************************************************)
(* Model of run.py: the listening loop of the voice chatbot.  One frame of *)
(* audio is read and fed to the recognizer; a finalized, non-empty text    *)
(* becomes pending_text and is dispatched by the if/elif chain (media      *)
(* control through the mpc command line, fuzzy catalog resolution, the     *)
(* Ollama assistant), inside a try/except Exception.  The outer            *)
(* try/except KeyboardInterrupt/finally releases the audio device.         *)
(*                                                                         *)
(* A Python str is a sequence of one-character strings; None is a value    *)
(* that is no text.                                                        *)
(***************************************************************************)
EXTENDS Integers, Sequences, FiniteSets, TLC

VARIABLES
    pc,                    \* "read": line 115 is next; "dispatch": line 124 is next; "exited"
    pending_text,          \* line 113/122/178
    conversation_history,  \* line 129; Unbound until the first "clear"
    db,                    \* the MPD database mpc lists and searches: a sequence of tracks
    queue,                 \* the MPD playback queue: a sequence of tracks
    calls,                 \* the subprocess.run invocations of this iteration, in order
    raised,                \* the exception this iteration raised into line 174 ("" if none)
    payload,               \* the "messages" this iteration posted to OLLAMA_URL (<<>> if none)
    printed,               \* what line 172 printed in this iteration (None if nothing)
    session,               \* the user and assistant messages of the successful turns since
                           \* the last "clear" (history of the run, not a program variable)
    forgotten,             \* how many messages of session the last "clear" dropped
    amp,                   \* peak absolute amplitude of the frame read last
    frames,                \* number of frames read so far
    finalized,             \* number of finalized non-empty texts so far
    dispatched,            \* number of times line 125 was reached so far
    stream,                \* "open", "stopped" or "closed": lines 34, 183, 184
    terminated,            \* p.terminate() was called: line 185
    exitCause,             \* why the loop ended ("" while it runs)
    probe,                 \* the arguments of one call of a resolver, made on its own
    answer                 \* what that call did and returned

vars == <<pc, pending_text, conversation_history, db, queue, calls,
          raised, payload, printed, session, forgotten, amp, frames, finalized,
          dispatched, stream, terminated, exitCause, probe, answer>>

(***************************************************************************)
(* Bounds of the model.                                                    *)
(***************************************************************************)
MaxFrames == 3

\* Length of the long artist names of the resolver catalogs.
LongLen == 100

(***************************************************************************)
(* Program constants.                                                      *)
(***************************************************************************)
AMP_THRESHOLD == 600

None == <<"None">>
Unbound == <<"Unbound">>

\* Truth value of "if x:" for x a str or None.
Truthy(x) == x # None /\ x # <<>>

(***************************************************************************)
(* Strings.                                                                *)
(***************************************************************************)
\* str.lower(), character by character.
LowerChar(c) ==
    CASE c = "A" -> "a"
      [] c = "B" -> "b"
      [] c = "C" -> "c"
      [] OTHER -> c

Lower(s) == [i \in 1..Len(s) |-> LowerChar(s[i])]

RECURSIVE JoinSp(_)
\* " ".join(ws)
JoinSp(ws) ==
    IF ws = <<>> THEN <<>>
    ELSE IF Len(ws) = 1 THEN ws[1]
    ELSE ws[1] \o <<" ">> \o JoinSp(Tail(ws))

\* s.startswith(prefix)
StartsWith(s, prefix) ==
    /\ Len(s) >= Len(prefix)
    /\ SubSeq(s, 1, Len(prefix)) = prefix

RECURSIVE SplitWsFrom(_, _)
\* str.split() with no argument: maximal runs of non-whitespace characters.
\* cur is the token being collected.
SplitWsFrom(s, cur) ==
    IF s = <<>> THEN (IF cur = <<>> THEN <<>> ELSE <<cur>>)
    ELSE IF Head(s) = " "
         THEN (IF cur = <<>> THEN <<>> ELSE <<cur>>) \o SplitWsFrom(Tail(s), <<>>)
         ELSE SplitWsFrom(Tail(s), Append(cur, Head(s)))

SplitWs(s) == SplitWsFrom(s, <<>>)

RECURSIVE SplitOnFrom(_, _, _)
\* str.split(sep): cut at every occurrence of sep, scanning left to right,
\* occurrences not overlapping.  cur is the piece being collected.
SplitOnFrom(s, sep, cur) ==
    IF StartsWith(s, sep)
    THEN <<cur>> \o SplitOnFrom(SubSeq(s, Len(sep) + 1, Len(s)), sep, <<>>)
    ELSE IF s = <<>> THEN <<cur>>
    ELSE SplitOnFrom(Tail(s), sep, Append(cur, Head(s)))

SplitOn(s, sep) == SplitOnFrom(s, sep, <<>>)

\* parts[1:]
Rest(parts) == IF parts = <<>> THEN <<>> ELSE Tail(parts)

(***************************************************************************)
(* fuzz.ratio: 100 * 2 * M / T rounded to an integer, M the length of the  *)
(* longest common subsequence and T the sum of the two lengths; 100 for    *)
(* two empty strings.  int(round(x)) rounds a half to the even integer.    *)
(***************************************************************************)
Max2(a, b) == IF a >= b THEN a ELSE b

RECURSIVE LCSOf(_, _)
\* The length of the longest common subsequence of s and t.
LCSOf(s, t) ==
    IF s = <<>> \/ t = <<>> THEN 0
    ELSE IF Head(s) = Head(t) THEN 1 + LCSOf(Tail(s), Tail(t))
    ELSE Max2(LCSOf(Tail(s), t), LCSOf(s, Tail(t)))

\* The characters of s that occur in t.
Shared(s, t) == SelectSeq(s, LAMBDA c : \E j \in 1..Len(t) : t[j] = c)

\* The length of the longest common prefix of s and t.
CommonPrefix(s, t) ==
    LET m == IF Len(s) <= Len(t) THEN Len(s) ELSE Len(t)
    IN  CHOOSE k \in 0..m :
           /\ (k = m \/ s[k + 1] # t[k + 1])
           /\ \A i \in 1..k : s[i] = t[i]

\* LCSOf, a common prefix of length k taken off first.
Trimmed(s, t, k) == k + LCSOf(SubSeq(s, k + 1, Len(s)), SubSeq(t, k + 1, Len(t)))

\* The same length for a long string, computed as the library does: the
\* characters that the other string lacks and the common prefix are taken
\* off first.
LCSLong(s, t) == Trimmed(Shared(s, t), Shared(t, s), CommonPrefix(Shared(s, t), Shared(t, s)))

LCS(s, t) ==
    IF Len(s) < LongLen /\ Len(t) < LongLen THEN LCSOf(s, t) ELSE LCSLong(s, t)

RoundHalfEven(n, d) ==
    LET q == n \div d
        r == n % d
    IN  IF 2 * r < d THEN q
        ELSE IF 2 * r > d THEN q + 1
        ELSE IF q % 2 = 0 THEN q ELSE q + 1

Ratio(s, t) ==
    IF Len(s) + Len(t) = 0 THEN 100
    ELSE RoundHalfEven(200 * LCS(s, t), Len(s) + Len(t))

\* The loop "for i in names: score = ...; if score > top[1]: top = (i, score)"
\* started from top: the first name of maximal score is kept, and only if
\* its score exceeds the one top starts with.
RECURSIVE ScanTop(_, _, _)
ScanTop(query, names, top) ==
    IF names = <<>> THEN top
    ELSE LET score == Ratio(Lower(query), Lower(Head(names)))
         IN  ScanTop(query, Tail(names),
                     IF score > top.score
                     THEN [name |-> Head(names), score |-> score]
                     ELSE top)

\* top = ("", 0)
Top0 == [name |-> <<>>, score |-> 0]

(***************************************************************************)
(* The media player behind the mpc command line.  A track of the database  *)
(* is a record of its artist tag and its title tag.                        *)
(***************************************************************************)
NoArg == <<"-">>

Cmd(op, artist, title, level) ==
    [op |-> op, artist |-> artist, title |-> title, level |-> level]

ListArtistCmd      == Cmd("list artist", NoArg, NoArg, 0)
ListTitleCmd       == Cmd("list title", NoArg, NoArg, 0)
ListTitleOf(a)     == Cmd("list title artist", a, NoArg, 0)
VolumeCmd(n)       == Cmd("volume", NoArg, NoArg, n)
Plain(op)          == Cmd(op, NoArg, NoArg, 0)
FindAddArtist(a)   == Cmd("findadd", a, NoArg, 0)
FindAddTitle(t)    == Cmd("findadd", NoArg, t, 0)
FindAdd(a, t)      == Cmd("findadd", a, t, 0)

IsList(c) == c.op \in {"list artist", "list title", "list title artist"}

RECURSIVE Dedup(_, _)
\* The distinct values of a sequence, in order of first occurrence.
Dedup(s, seen) ==
    IF s = <<>> THEN <<>>
    ELSE IF Head(s) \in seen THEN Dedup(Tail(s), seen)
    ELSE <<Head(s)>> \o Dedup(Tail(s), seen \cup {Head(s)})

RECURSIVE Strip(_)
\* str.strip()
Strip(s) ==
    IF s # <<>> /\ Head(s) = " " THEN Strip(Tail(s))
    ELSE IF s # <<>> /\ s[Len(s)] = " " THEN Strip(SubSeq(s, 1, Len(s) - 1))
    ELSE s

RECURSIVE Lines(_)
\* [line.strip() for line in result.stdout.splitlines() if line.strip()]
Lines(out) ==
    IF out = <<>> THEN <<>>
    ELSE (IF Strip(Head(out)) # <<>> THEN <<Strip(Head(out))>> ELSE <<>>)
         \o Lines(Tail(out))

\* Output of "mpc list artist": one line per distinct artist tag.
StdoutListArtist(d) == Dedup([i \in 1..Len(d) |-> d[i].artist], {})

\* Output of "mpc list title": one line per distinct title tag.
StdoutListTitle(d) == Dedup([i \in 1..Len(d) |-> d[i].title], {})

\* Output of "mpc list title artist a": the distinct titles of the tracks whose
\* artist tag is a.
StdoutListTitleOf(d, a) ==
    StdoutListTitle(SelectSeq(d, LAMBDA t : t.artist = a))

\* The tracks "mpc findadd" appends: those whose tags equal every given value.
Matching(d, c) ==
    SelectSeq(d, LAMBDA t : /\ (c.artist # NoArg => t.artist = c.artist)
                            /\ (c.title # NoArg => t.title = c.title))

\* A reordering of q by a permutation of its positions.
ShuffleBy(q, order) ==
    IF Len(order) = Len(q) THEN [i \in 1..Len(q) |-> q[order[i]]] ELSE q

\* The effect of one mpc command on the playback queue q; the commands that
\* list, set the volume or move the player leave it as it is.
Apply(c, q, d, order) ==
    CASE c.op = "clear"   -> <<>>
      [] c.op = "add /"   -> q \o d
      [] c.op = "findadd" -> q \o Matching(d, c)
      [] c.op = "shuffle" -> ShuffleBy(q, order)
      [] OTHER            -> q

RECURSIVE ApplyAll(_, _, _, _)
ApplyAll(cs, q, d, order) ==
    IF cs = <<>> THEN q
    ELSE ApplyAll(Tail(cs), Apply(Head(cs), q, d, order), d, order)

(***************************************************************************)
(* Sequential execution.  An execution is a record of the subprocess.run   *)
(* invocations made so far (calls), the exception raised ("" if none) and  *)
(* the value returned (ret).  st is the state of the mpc command line:     *)
(* "ok", "fail" (mpc exits with a non-zero status, changing nothing) or    *)
(* "missing" (no mpc executable).                                          *)
(***************************************************************************)
Exec(cs, exc, ret) == [calls |-> cs, exc |-> exc, ret |-> ret]

\* subprocess.run(args, check=...): a None among args is a TypeError and a
\* missing executable a FileNotFoundError, both before anything runs; with
\* check=True (the list commands) a non-zero exit is a CalledProcessError.
Run(c, st) ==
    IF c.artist = None \/ c.title = None THEN Exec(<<>>, "TypeError", None)
    ELSE IF st = "missing" THEN Exec(<<>>, "FileNotFoundError", None)
    ELSE IF st = "fail" /\ IsList(c) THEN Exec(<<c>>, "CalledProcessError", None)
    ELSE Exec(<<c>>, "", None)

\* e followed by f, f not run when e raised.
Then(e, f) ==
    IF e.exc # "" THEN e ELSE Exec(e.calls \o f.calls, f.exc, f.ret)

RECURSIVE RunSeq(_, _)
\* The statements subprocess.run(c1); subprocess.run(c2); ...
RunSeq(cs, st) ==
    IF cs = <<>> THEN Exec(<<>>, "", None)
    ELSE Then(Run(Head(cs), st), RunSeq(Tail(cs), st))

threshold == 0

\* query.lower() inside the scoring loop: an AttributeError when query is
\* None and the loop body runs at all.
ScanRaises(query, names) == query = None /\ names # <<>>

find_artist(query, d, st) ==
    LET r == Run(ListArtistCmd, st)
        artists == Lines(StdoutListArtist(d))
        top == ScanTop(query, artists, Top0)
    IN  IF r.exc # "" THEN r
        ELSE IF ScanRaises(query, artists) THEN Exec(r.calls, "AttributeError", None)
        ELSE Exec(r.calls, "", IF top.score > threshold THEN top.name ELSE None)

find_any(query, d, st) ==
    LET r == Run(ListTitleCmd, st)
        tracks == Lines(StdoutListTitle(d))
    IN  IF r.exc # "" THEN r
        ELSE IF ScanRaises(query, tracks) THEN Exec(r.calls, "AttributeError", None)
        ELSE Exec(r.calls, "", ScanTop(query, tracks, Top0).name)

\* find_song with the check of lines 74-75 left out.
find_song_unchecked(artist, query, dA, dT, st) ==
    LET a == find_artist(artist, dA, st)
        r == Run(ListTitleOf(a.ret), st)
        tracks == Lines(StdoutListTitleOf(dT, a.ret))
    IN  IF a.exc # "" THEN a
        ELSE IF r.exc # "" THEN Then(a, r)
        ELSE IF ScanRaises(query, tracks)
             THEN Exec(a.calls \o r.calls, "AttributeError", None)
             ELSE Exec(a.calls \o r.calls, "", ScanTop(query, tracks, Top0).name)

\* find_song, its two mpc processes reading the database one after the
\* other: "mpc list artist" (line 73) meets dA, "mpc list title artist"
\* (lines 76-81) meets dT.
find_song_at(artist, query, dA, dT, st) ==
    LET a == find_artist(artist, dA, st)
        r == Run(ListTitleOf(a.ret), st)
        tracks == Lines(StdoutListTitleOf(dT, a.ret))
    IN  IF a.exc # "" THEN a
        ELSE IF ~Truthy(a.ret) THEN Exec(a.calls, "", None)
        ELSE IF r.exc # "" THEN Then(a, r)
        ELSE IF ScanRaises(query, tracks)
             THEN Exec(a.calls \o r.calls, "AttributeError", None)
             ELSE Exec(a.calls \o r.calls, "", ScanTop(query, tracks, Top0).name)

\* find_song over a database that does not change meanwhile.
find_song(artist, query, d, st) == find_song_at(artist, query, d, d, st)

(***************************************************************************)
(* Words of the utterances.                                                *)
(***************************************************************************)
W_clear == <<"c", "l", "e", "a", "r">>
W_volume == <<"v", "o", "l", "u", "m", "e">>
W_up == <<"u", "p">>
W_down == <<"d", "o", "w", "n">>
W_stop == <<"s", "t", "o", "p">>
W_pause == <<"p", "a", "u", "s", "e">>
W_play == <<"p", "l", "a", "y">>
W_resume == <<"r", "e", "s", "u", "m", "e">>
W_shuffle == <<"s", "h", "u", "f", "f", "l", "e">>
W_all == <<"a", "l", "l">>
W_songs == <<"s", "o", "n", "g", "s">>
W_skip == <<"s", "k", "i", "p">>
W_rewind == <<"r", "e", "w", "i", "n", "d">>
W_go == <<"g", "o">>
W_back == <<"b", "a", "c", "k">>
W_by == <<"b", "y">>
W_jimbo == <<"j", "i", "m", "b", "o">>
W_hi == <<"h", "i">>
W_playing == <<"p", "l", "a", "y", "i", "n", "g">>
W_hello == <<"h", "e", "l", "l", "o">>

BOT_NAME == W_jimbo
By == <<" ">> \o W_by \o <<" ">>

\* SYSTEM_PROMPT, kept whole.
SYSTEM_PROMPT == <<"Your name is jimbo. You are a helpful assistant. ...">>

Msg(role, content) == [role |-> role, content |-> content]

(***************************************************************************)
(* query_ollama.  backend is what the HTTP request meets: a response       *)
(* carrying message.content ("ok"), a requests.RequestException, or a      *)
(* response without a usable "message" (any other exception).              *)
(***************************************************************************)
ExcObj == <<"Exception">>
ErrorText == <<"Error querying Ollama: ">>

IsStr(x) == x # None /\ x # ExcObj

Messages(user_prompt) ==
    <<Msg("system", SYSTEM_PROMPT), Msg("user", user_prompt)>>

query_ollama(user_prompt, backend) ==
    [post |-> Messages(user_prompt),
     ret  |-> CASE backend.kind = "ok" -> backend.content
                [] backend.kind = "RequestException" -> ErrorText
                [] OTHER -> ExcObj]

(***************************************************************************)
(* The if/elif chain of lines 126-173 on a truthy pending_text.  The       *)
(* result adds to an execution whether conversation_history was rebound    *)
(* (clear), the messages posted to the backend (post, <<>> if no request)  *)
(* and the reply printed (out, None if none).                              *)
(***************************************************************************)
Outcome(e, clear, post, out) ==
    [calls |-> e.calls, exc |-> e.exc, clear |-> clear, post |-> post, out |-> out]

Media(e) == Outcome(e, FALSE, <<>>, None)

Nothing == Exec(<<>>, "", None)

\* lines 151-158, the three listings meeting the databases d1, d2 and d3 in
\* turn: each is a process of its own, asking MPD anew.
PlayByAt(subquery, d1, d2, d3, st) ==
    LET title == subquery[1]
        artist == find_artist(subquery[2], d1, st)
        res == find_song_at(artist.ret, title, d2, d3, st)
    IN  Then(artist,
        Then(res,
             RunSeq(<<Plain("clear"), FindAdd(artist.ret, res.ret), Plain("play")>>, st)))

\* lines 151-158 over a database that does not change meanwhile.
PlayBy(subquery, d, st) == PlayByAt(subquery, d, d, d, st)

\* lines 160-163
PlayAny(query, d, st) ==
    LET res == find_any(query, d, st)
    IN  Then(res, RunSeq(<<Plain("clear"), FindAddTitle(res.ret), Plain("play")>>, st))

\* lines 165-169
ShuffleArtist(split, d, st) ==
    LET artist == find_artist(JoinSp(Rest(split)), d, st)
    IN  Then(artist,
             RunSeq(<<Plain("clear"), FindAddArtist(artist.ret), Plain("play")>>, st))

\* lines 171-172
Assistant(text, backend) ==
    LET r == query_ollama(text, backend)
    IN  IF IsStr(r.ret)
        THEN Outcome(Nothing, FALSE, r.post, <<"\n">> \o r.ret)
        ELSE Outcome(Exec(<<>>, "TypeError", None), FALSE, r.post, None)

\* Line 139 without its first alternative.
IsResumeOnly(text) == text = W_resume

\* line 139
IsResume(text) == text = W_play \/ text = W_resume

Chain(text, d, st, backend) ==
    LET parts == SplitWs(text)
        rest == JoinSp(Rest(parts))
    IN  CASE text = W_clear -> Outcome(Nothing, TRUE, <<>>, None)
          [] text = JoinSp(<<W_volume, W_up>>) -> Media(Run(VolumeCmd(100), st))
          [] text = JoinSp(<<W_volume, W_down>>) -> Media(Run(VolumeCmd(60), st))
          [] text = W_stop -> Media(Run(Plain("stop"), st))
          [] text = W_pause -> Media(Run(Plain("pause"), st))
          [] IsResume(text) -> Media(Run(Plain("play"), st))
          [] text = JoinSp(<<W_shuffle, W_all, W_songs>>) ->
                Media(RunSeq(<<Plain("clear"), Plain("add /"), Plain("shuffle"),
                               Plain("play")>>, st))
          [] text = W_skip -> Media(Run(Plain("next"), st))
          [] text = W_rewind \/ text = JoinSp(<<W_go, W_back>>) ->
                Media(Run(Plain("prev"), st))
          [] OTHER ->
                IF parts = <<>> THEN Media(Exec(<<>>, "IndexError", None))
                ELSE IF StartsWith(parts[1], W_play)
                THEN (IF Len(SplitOn(rest, By)) > 1
                      THEN Media(PlayBy(SplitOn(rest, By), d, st))
                      ELSE Media(PlayAny(rest, d, st)))
                ELSE IF parts[1] = W_shuffle
                THEN Media(ShuffleArtist(SplitOn(rest, By), d, st))
                ELSE IF parts[1] = BOT_NAME
                THEN Assistant(text, backend)
                ELSE Media(Nothing)

(***************************************************************************)
(* The inputs of the model: what the recognizer can say, what the MPD      *)
(* database can hold, what the microphone, the mpc command line and the    *)
(* assistant backend can do.                                               *)
(***************************************************************************)
Q_a  == <<"a">>
Q_ab == <<"a", "b">>
Q_ca == <<"c", "a">>
Q_x  == <<"x">>

Utterances ==
    { W_clear, JoinSp(<<W_volume, W_up>>), JoinSp(<<W_volume, W_down>>), W_stop,
      W_pause, W_play, W_resume, JoinSp(<<W_shuffle, W_all, W_songs>>), W_skip,
      W_rewind, JoinSp(<<W_go, W_back>>),
      JoinSp(<<W_play, Q_ca, W_by, Q_ab>>),
      JoinSp(<<W_play, Q_x, W_by, Q_ab>>),
      JoinSp(<<W_play, Q_ca, W_by, Q_x>>),
      JoinSp(<<W_play, Q_a, W_by, Q_a>>),
      JoinSp(<<W_play, Q_ca, W_by, Q_x, W_by, Q_ab>>),
      JoinSp(<<W_play, Q_ca>>),
      JoinSp(<<W_play, Q_x>>),
      JoinSp(<<W_playing, Q_ca>>),
      W_playing,
      W_shuffle,
      JoinSp(<<W_shuffle, Q_ab>>),
      JoinSp(<<W_shuffle, Q_x, W_by, Q_ab>>),
      JoinSp(<<W_shuffle, Q_a, W_by, Q_x>>),
      JoinSp(<<W_jimbo, W_hi>>),
      W_jimbo,
      W_hello,
      <<" ">> }

Track(artist, title) == [artist |-> artist, title |-> title]

Catalogs ==
    { <<>>,
      << Track(<<"A", "b">>, <<"C", "a">>), Track(<<"A", "b">>, <<"b">>),
         Track(<<"c">>, <<"a">>) >>,
      << Track(<<>>, <<"a">>), Track(<<"a", "c">>, <<"c">>),
         Track(<<"A", "b">>, <<"C", "a">>) >> }

\* The peak amplitudes a frame can have: at the gate threshold and above it.
Amplitudes == {AMP_THRESHOLD, AMP_THRESHOLD + 1}

\* rec.AcceptWaveform(data) and rec.Result(): no finalized result ("partial"),
\* a JSON record with a text ("final"), a JSON record without one ("no_text"),
\* something json.loads rejects ("not_json"), JSON that is no record
\* ("not_dict").
RecResults ==
    {[kind |-> k, text |-> <<>>] : k \in {"partial", "final", "no_text", "not_json", "not_dict"}}
    \cup {[kind |-> "final", text |-> t] : t \in Utterances}

MpcStates == {"ok", "fail", "missing"}

Reply == <<"o", "k">>

Backends ==
    {[kind |-> "ok", content |-> Reply],
     [kind |-> "RequestException", content |-> <<>>],
     [kind |-> "no_message", content |-> <<>>]}

Orders(n) == {f \in [1..n -> 1..n] : \A i, j \in 1..n : f[i] = f[j] => i = j}

\* No resolver is called on its own while the loop runs.
NoProbe == [artist |-> None, title |-> None, st |-> "ok"]
NoAnswer == [op |-> "none", res |-> Nothing, again |-> Nothing, d2 |-> <<>>, d3 |-> <<>>]

(***************************************************************************)
(* The loop.                                                               *)
(***************************************************************************)
Init ==
    /\ pc = "read"
    /\ pending_text = None
    /\ conversation_history = Unbound
    /\ db \in Catalogs
    /\ queue = db
    /\ calls = <<>>
    /\ raised = ""
    /\ payload = <<>>
    /\ printed = None
    /\ session = <<>>
    /\ forgotten = 0
    /\ amp = 0
    /\ frames = 0
    /\ finalized = 0
    /\ dispatched = 0
    /\ stream = "open"
    /\ terminated = FALSE
    /\ exitCause = ""
    /\ probe = NoProbe
    /\ answer = NoAnswer

\* The release of lines 183-185 put under "except KeyboardInterrupt".
ReleasedOnInterrupt(exc) == exc = "KeyboardInterrupt"

\* The exceptions the finally clause of lines 182-185 runs for: all of them.
Released(exc) == TRUE

\* An exception leaves the while loop: lines 180-185.
Escape(exc) ==
    /\ pc' = "exited"
    /\ exitCause' = exc
    /\ stream' = IF Released(exc) THEN "closed" ELSE stream
    /\ terminated' = (Released(exc) \/ terminated)

\* json.loads(rec.Result()) and result.get("text"): lines 119-120.
ParseError(r) ==
    CASE r.kind = "not_json" -> "JSONDecodeError"
      [] r.kind = "not_dict" -> "AttributeError"
      [] OTHER -> ""

\* The text line 120 reads from a result that parsed: None without AcceptWaveform.
Transcribed(r) == IF r.kind = "final" THEN r.text ELSE None

\* Whether a finalized text of a frame of peak amplitude a is taken: lines
\* 116-118, the amplitude not being looked at.
Gate(a) == TRUE

\* lines 115-122
ReadFrame ==
    /\ pc = "read"
    /\ frames < MaxFrames
    /\ \E a \in Amplitudes, r \in RecResults :
          /\ amp' = a
          /\ frames' = frames + 1
          /\ IF ParseError(r) # ""
             THEN /\ Escape(ParseError(r))
                  /\ UNCHANGED <<pending_text, finalized>>
             ELSE /\ pc' = "dispatch"
                  /\ pending_text' = IF Gate(a) /\ Truthy(Transcribed(r))
                                     THEN Transcribed(r) ELSE pending_text
                  /\ finalized' = IF Gate(a) /\ Truthy(Transcribed(r))
                                  THEN finalized + 1 ELSE finalized
                  /\ UNCHANGED <<stream, terminated, exitCause>>
    /\ calls' = <<>>
    /\ raised' = ""
    /\ payload' = <<>>
    /\ printed' = None
    /\ UNCHANGED <<conversation_history, db, queue, session, forgotten,
                   dispatched, probe, answer>>

\* stream.read raises: line 115.
DeviceFailure ==
    /\ pc = "read"
    /\ Escape("OSError")
    /\ UNCHANGED <<pending_text, conversation_history, db, queue,
                   calls, raised, payload, printed, session, forgotten, amp, frames,
                   finalized, dispatched, probe, answer>>

\* Ctrl+C while the loop waits for a frame or is between two statements of
\* lines 115-124.
Interrupt ==
    /\ pc \in {"read", "dispatch"}
    /\ Escape("KeyboardInterrupt")
    /\ UNCHANGED <<pending_text, conversation_history, db, queue,
                   calls, raised, payload, printed, session, forgotten, amp, frames,
                   finalized, dispatched, probe, answer>>

\* The queue after the mpc commands cs, which change it only when mpc works.
Played(cs, st, order) == IF st = "ok" THEN ApplyAll(cs, queue, db, order) ELSE queue

\* Line 129 binding nothing.
RebindNever(clear, h) == h

\* conversation_history after the dispatch: lines 128-129.
Rebind(clear, h) == IF clear THEN <<>> ELSE h

\* Line 178 skipped when the dispatch raised.
KeepOnError(text, exc) == IF exc # "" THEN text ELSE None

\* pending_text after the iteration: line 178.
AfterIteration(text, exc) == None

\* The backend answers only a dispatch that posts a request, and the player
\* picks a new order only for a dispatch that shuffles: the inputs a dispatch
\* with the outcome o can meet.
Unused == [kind |-> "unused", content |-> <<>>]

BackendsFor(o) == IF o.post = <<>> THEN {Unused} ELSE Backends

OrdersFor(cs) ==
    IF \E i \in 1..Len(cs) : cs[i].op = "shuffle"
    THEN Orders(Len(db))
    ELSE {[i \in 1..Len(db) |-> i]}

\* lines 124-178, pending_text truthy
DispatchPending ==
    /\ pc = "dispatch"
    /\ Truthy(pending_text)
    /\ \E st \in MpcStates :
       \E backend \in BackendsFor(Chain(pending_text, db, st, Unused)) :
          \E o \in {Chain(pending_text, db, st, backend)} :
              \E order \in OrdersFor(o.calls) :
                     /\ calls' = o.calls
                     /\ raised' = o.exc
                     /\ queue' = Played(o.calls, st, order)
                     /\ conversation_history' = Rebind(o.clear, conversation_history)
                     /\ payload' = o.post
                     /\ printed' = o.out
                     /\ session' =
                           IF o.clear THEN <<>>
                           ELSE IF o.post # <<>> /\ backend.kind = "ok"
                           THEN session \o <<Msg("user", pending_text),
                                             Msg("assistant", backend.content)>>
                           ELSE session
                     /\ forgotten' = IF o.clear THEN Len(session) ELSE forgotten
                     /\ pending_text' = AfterIteration(pending_text, o.exc)
    /\ dispatched' = dispatched + 1
    /\ pc' = "read"
    /\ UNCHANGED <<db, amp, frames, finalized, stream, terminated, exitCause,
                   probe, answer>>

\* lines 124 and 178, pending_text not truthy
DispatchIdle ==
    /\ pc = "dispatch"
    /\ ~Truthy(pending_text)
    /\ calls' = <<>>
    /\ raised' = ""
    /\ payload' = <<>>
    /\ printed' = None
    /\ pending_text' = AfterIteration(pending_text, "")
    /\ pc' = "read"
    /\ UNCHANGED <<queue, conversation_history, session, forgotten, dispatched,
                   db, amp, frames, finalized, stream, terminated, exitCause,
                   probe, answer>>

\* Ctrl+C inside the dispatch, after k of its subprocess.run calls: it is no
\* Exception, so line 174 does not catch it.
InterruptDispatch ==
    /\ pc = "dispatch"
    /\ Truthy(pending_text)
    /\ \E st \in MpcStates :
          \E o \in {Chain(pending_text, db, st, Unused)} :
              \E k \in 0..Len(o.calls) :
                 \E done \in {SubSeq(o.calls, 1, k)} :
                     \E order \in OrdersFor(done) :
                        /\ calls' = done
                        /\ queue' = Played(done, st, order)
    /\ raised' = ""
    /\ payload' = <<>>
    /\ printed' = None
    /\ dispatched' = dispatched + 1
    /\ Escape("KeyboardInterrupt")
    /\ UNCHANGED <<pending_text, conversation_history, db, session, forgotten, amp,
                   frames, finalized, probe, answer>>

Next ==
    \/ ReadFrame
    \/ DeviceFailure
    \/ Interrupt
    \/ DispatchPending
    \/ DispatchIdle
    \/ InterruptDispatch

Spec == Init /\ [][Next]_vars

(***************************************************************************)
(* The resolvers called on their own: find_artist, find_song and the       *)
(* resolution of lines 153-158, on arguments and a database drawn from the *)
(* sets below.  MPD serves other clients too, and its database can be      *)
(* updated between two mpc processes: the second and third listing of      *)
(* lines 153-158 can meet databases other than the first.                  *)
(***************************************************************************)
Long == [i \in 1..LongLen |-> "a"]
LongZ == Long \o <<"z">>
Q_b == <<"b">>
Q_AB == <<"A", "B">>
Q_aaaaa == <<"a", "a", "a", "a", "a">>

ResolverCatalogs ==
    Catalogs
    \cup { << Track(<<"A", "b">>, <<"C", "a">>), Track(Q_ab, Q_b) >>,
           << Track(LongZ, Q_b), Track(Long, Q_a) >> }

ArtistQueries == {None, <<>>, Q_a, Q_ab, Q_AB, Q_ca, Q_x, Q_aaaaa, Long}

TitleQueries == {<<>>, Q_a, Q_ca, Q_x, Q_b}

InitResolve ==
    /\ pc = "read"
    /\ pending_text = None
    /\ conversation_history = Unbound
    /\ db \in ResolverCatalogs
    /\ queue = db
    /\ calls = <<>>
    /\ raised = ""
    /\ payload = <<>>
    /\ printed = None
    /\ session = <<>>
    /\ forgotten = 0
    /\ amp = 0
    /\ frames = 0
    /\ finalized = 0
    /\ dispatched = 0
    /\ stream = "open"
    /\ terminated = FALSE
    /\ exitCause = ""
    /\ probe \in [artist : ArtistQueries, title : TitleQueries, st : MpcStates]
    /\ answer = NoAnswer

loopVars == <<pc, pending_text, conversation_history, db, queue, calls,
              raised, payload, printed, session, forgotten, amp, frames, finalized,
              dispatched, stream, terminated, exitCause>>

\* find_artist(probe.artist), and find_artist again on the name it returned,
\* as line 73 does with the artist of line 154.
ResolveArtist ==
    /\ answer.op = "none"
    /\ LET first == find_artist(probe.artist, db, probe.st)
       IN  answer' = [op |-> "artist", res |-> first,
                      again |-> IF first.exc = "" /\ first.ret # None
                                THEN find_artist(first.ret, db, probe.st)
                                ELSE Nothing,
                      d2 |-> db, d3 |-> db]
    /\ UNCHANGED <<loopVars, probe>>

\* find_song(probe.artist, probe.title)
ResolveSong ==
    /\ answer.op = "none"
    /\ answer' = [op |-> "song",
                  res |-> find_song(probe.artist, probe.title, db, probe.st),
                  again |-> Nothing, d2 |-> db, d3 |-> db]
    /\ UNCHANGED <<loopVars, probe>>

\* lines 153-158 on 'play <probe.title> by <probe.artist>', the database
\* being db at line 154, d2 at line 73 and d3 at lines 76-81.
ResolvePlay ==
    /\ answer.op = "none"
    /\ probe.artist # None
    /\ \E d2, d3 \in ResolverCatalogs :
          answer' = [op |-> "play",
                     res |-> PlayByAt(<<probe.title, probe.artist>>, db, d2, d3, probe.st),
                     again |-> Nothing, d2 |-> d2, d3 |-> d3]
    /\ UNCHANGED <<loopVars, probe>>

NextResolve ==
    \/ ResolveArtist
    \/ ResolveSong
    \/ ResolvePlay

SpecResolve == InitResolve /\ [][NextResolve]_vars

(***************************************************************************)
(* The commands the properties speak of, read off an utterance the way     *)
(* lines 126, 151 and 165 tokenize it.                                     *)
(***************************************************************************)
Vocabulary ==
    { W_clear, JoinSp(<<W_volume, W_up>>), JoinSp(<<W_volume, W_down>>), W_stop,
      W_pause, W_play, W_resume, JoinSp(<<W_shuffle, W_all, W_songs>>), W_skip,
      W_rewind, JoinSp(<<W_go, W_back>>) }

FirstToken(text) == IF SplitWs(text) = <<>> THEN <<>> ELSE SplitWs(text)[1]
Remainder(text) == JoinSp(Rest(SplitWs(text)))
Pieces(text) == SplitOn(Remainder(text), By)

\* 'play <title> by <artist>', with one separator.
IsPlayBy(text) ==
    /\ Truthy(text)
    /\ text \notin Vocabulary
    /\ FirstToken(text) = W_play
    /\ Len(Pieces(text)) = 2

\* 'play <title>', with no separator.
IsPlayTitle(text) ==
    /\ Truthy(text)
    /\ text \notin Vocabulary
    /\ FirstToken(text) = W_play
    /\ Len(Pieces(text)) = 1

\* 'shuffle ...' other than 'shuffle all songs', with at most one separator;
\* its artist query is what follows the separator, or the whole remainder.
IsShuffleBy(text) ==
    /\ Truthy(text)
    /\ text \notin Vocabulary
    /\ FirstToken(text) = W_shuffle
    /\ Len(Pieces(text)) <= 2

ShuffleQuery(text) ==
    IF Len(Pieces(text)) = 2 THEN Pieces(text)[2] ELSE Remainder(text)

\* The first token is the wake word: the utterance is an assistant query.
IsAssistantQuery(text) ==
    /\ Truthy(text)
    /\ text \notin Vocabulary
    /\ FirstToken(text) = BOT_NAME

\* Resolution over a working mpc.
ResolvedArtist(query, d) == find_artist(query, d, "ok").ret
ResolvedSong(artist, query, d) == find_song(artist, query, d, "ok").ret
ResolvedAny(query, d) == find_any(query, d, "ok").ret

\* The artist of 'play <title> by <artist>' has no match, or the title has
\* none among the tracks of the artist matched.
PlayByMisses(text, d) ==
    LET artist == ResolvedArtist(Pieces(text)[2], d)
    IN  \/ artist = None
        \/ ~Truthy(ResolvedSong(artist, Pieces(text)[1], d))

\* None of the commands cs clears the queue, adds to it or starts playback.
NoQueueCommand(cs) ==
    \A i \in 1..Len(cs) : cs[i].op \notin {"clear", "findadd", "play"}

\* A step that dispatches the pending utterance: line 125 is reached.
Dispatching == pc = "dispatch" /\ Truthy(pending_text) /\ dispatched' = dispatched + 1

(***************************************************************************)
(* C1.  A 'play <title> by <artist>' whose artist has no match, or whose   *)
(* title has no match within the artist resolved, issues no 'clear', no    *)
(* 'findadd' and no 'play', and leaves the playback queue as it was.       *)
(* Fails: "play x by ab" resolves the artist, finds no title and clears    *)
(* the queue all the same.                                                 *)
(***************************************************************************)
C1_PlayByMissLeavesQueue ==
    [][(Dispatching /\ IsPlayBy(pending_text) /\ PlayByMisses(pending_text, db))
          => (NoQueueCommand(calls') /\ queue' = queue)]_vars

(***************************************************************************)
(* C2.  A failure raised while a command is dispatched is caught in that   *)
(* iteration: the loop goes on, nothing is pending and the next step reads *)
(* a frame; and the loop ends on an audio-device failure or an interrupt   *)
(* only.  Fails on the last part: a recognizer result that does not parse  *)
(* ends the loop too (see C6).                                             *)
(***************************************************************************)
C2_FailureContained ==
    /\ [][(Dispatching /\ raised' # "")
             => (pc' = "read" /\ pending_text' = None /\ exitCause' = "")]_vars
    /\ [](pc = "exited" => exitCause \in {"OSError", "KeyboardInterrupt"})

\* The part of C2 about the dispatch alone, which holds.
C2_DispatchContained ==
    [][(Dispatching /\ raised' # "")
          => (pc' = "read" /\ pending_text' = None /\ exitCause' = "")]_vars

Witness_C2_DispatchContained == raised = "TypeError" /\ pc = "read"

(***************************************************************************)
(* C3.  With no clear in between, the messages posted for an assistant     *)
(* query are those of the earlier successful turns, in order, and then the *)
(* user message of this turn (a system message may come first); and a      *)
(* successful turn appends its user message and the reply to the           *)
(* conversation history.  Fails: every request carries the system message  *)
(* and the current user message only, and nothing is ever appended.        *)
(***************************************************************************)
WithoutSystem(msgs) == SelectSeq(msgs, LAMBDA m : m.role # "system")

History(h) == IF h = Unbound THEN <<>> ELSE h

C3_RequestCarriesHistory ==
    [][(Dispatching /\ payload' # <<>>)
          => /\ WithoutSystem(payload') = session \o <<Msg("user", pending_text)>>
             /\ printed' = <<"\n">> \o Reply
                   => History(conversation_history') =
                         History(conversation_history)
                            \o <<Msg("user", pending_text), Msg("assistant", Reply)>>]_vars

(***************************************************************************)
(* C4.  A 'play <title>' whose title has no match among all the titles of  *)
(* the catalog issues no 'clear', no 'findadd' and no 'play'.  Fails:      *)
(* "play x" clears the queue and asks for the title "".                    *)
(***************************************************************************)
C4_PlayTitleMissIssuesNothing ==
    [][(Dispatching /\ IsPlayTitle(pending_text)
           /\ ~Truthy(ResolvedAny(Remainder(pending_text), db)))
          => NoQueueCommand(calls')]_vars

(***************************************************************************)
(* C5.  A 'shuffle <artist>' whose artist query has no match issues no     *)
(* 'clear', no 'findadd' and no 'play'.  Fails: "shuffle a by x" clears    *)
(* the queue before the missing artist stops the dispatch.                 *)
(***************************************************************************)
C5_ShuffleMissIssuesNothing ==
    [][(Dispatching /\ IsShuffleBy(pending_text)
           /\ ResolvedArtist(ShuffleQuery(pending_text), db) = None)
          => NoQueueCommand(calls')]_vars

(***************************************************************************)
(* C6.  A recognizer result that does not parse, or is no record, is       *)
(* dropped and never ends the loop.  Fails: the exception of lines 119-120 *)
(* is outside the try of line 127 and ends the loop.                       *)
(***************************************************************************)
C6_MalformedResultDropped ==
    ~(pc = "exited" /\ exitCause \in {"JSONDecodeError", "AttributeError"})

(***************************************************************************)
(* C7.  A finalized text is pending for dispatch only if the frame that    *)
(* produced it had a peak amplitude above AMP_THRESHOLD.  Fails: the       *)
(* amplitude is never computed, a frame at the threshold is dispatched.    *)
(***************************************************************************)
C7_GatedByAmplitude ==
    (pc = "dispatch" /\ Truthy(pending_text)) => amp > AMP_THRESHOLD

(***************************************************************************)
(* C8.  A clear leaves the conversation history empty, and the request of  *)
(* the next assistant query holds the system message and the user message  *)
(* of that query and nothing else.                                         *)
(***************************************************************************)
C8_ClearForgets ==
    [][/\ (Dispatching /\ pending_text = W_clear /\ pc' = "read")
             => conversation_history' = <<>>
       /\ (Dispatching /\ payload' # <<>> /\ session = <<>>)
             => payload' = <<Msg("system", SYSTEM_PROMPT),
                             Msg("user", pending_text)>>]_vars

\* An assistant query answered after a clear that dropped an earlier turn: the
\* new turn is the whole session.
Witness_C8_ClearForgets ==
    /\ conversation_history = <<>>
    /\ forgotten > 0
    /\ Len(payload) = 2
    /\ Len(session) = 2

C10_PendingDispatchedOnce ==
    /\ pc = "read" => pending_text = None
    /\ dispatched <= finalized
    /\ (pc = "dispatch" /\ ~Truthy(pending_text)) => dispatched = finalized

\* A second iteration starts after a dispatch that raised.
Witness_C10_PendingDispatchedOnce ==
    pc = "read" /\ raised # "" /\ pending_text = None /\ dispatched = 1

(***************************************************************************)
(* C11.  As stated: the utterance "play" alone does not raise and is a     *)
(* play-by-title with the empty title, so its dispatch is that of lines    *)
(* 160-163 on the query "": it lists the titles.  Fails: line 139 takes    *)
(* "play" first and the dispatch is the single command 'mpc play'.         *)
(***************************************************************************)
C11_PlayAloneIsPlayByTitle ==
    [][(Dispatching /\ pending_text = W_play /\ pc' = "read")
          => \E st \in MpcStates :
                /\ calls' = PlayAny(<<>>, db, st).calls
                /\ raised' = PlayAny(<<>>, db, st).exc]_vars

(***************************************************************************)
(* C11, amended.  The utterance "play" alone raises nothing of its own and *)
(* is the resume command of the fixed vocabulary: its dispatch queries no  *)
(* catalog and no assistant, and is the single command 'mpc play' (an      *)
(* interrupt can stop it before that command, and a missing mpc            *)
(* executable is the one error it can surface).                            *)
(***************************************************************************)
C11_PlayAloneIsResume ==
    [][(Dispatching /\ pending_text = W_play)
          => /\ \A i \in 1..Len(calls') : calls'[i] = Plain("play")
             /\ Len(calls') <= 1
             /\ payload' = <<>>
             /\ raised' \in {"", "FileNotFoundError"}
             /\ (pc' = "read" /\ raised' = "") => calls' = <<Plain("play")>>]_vars

\* The dispatch of "play" ran 'mpc play' and nothing else, and an interrupt
\* ended the loop before line 178: the text is still pending.
Witness_C11_PlayAloneIsResume ==
    /\ pc = "exited"
    /\ pending_text = W_play
    /\ dispatched = finalized
    /\ calls = <<Plain("play")>>

(***************************************************************************)
(* C12.  An utterance that is no entry of the fixed vocabulary and whose   *)
(* first token is none of "play", "shuffle" and the wake word issues no    *)
(* mpc command, no catalog query and no assistant request, and surfaces no *)
(* error.  Fails: line 150 tests startswith("play"), so "playing ca" is    *)
(* dispatched as a play command.                                           *)
(***************************************************************************)
IsUnknown(text) ==
    /\ Truthy(text)
    /\ text \notin Vocabulary
    /\ SplitWs(text) # <<>>
    /\ FirstToken(text) \notin {W_play, W_shuffle, BOT_NAME}

C12_UnknownDoesNothing ==
    [][(Dispatching /\ IsUnknown(pending_text))
          => (calls' = <<>> /\ payload' = <<>> /\ raised' = "")]_vars

(***************************************************************************)
(* C13.  Whenever find_artist returns no match for the artist query,       *)
(* find_song on that artist query returns no match too, raising nothing    *)
(* and listing no titles: 'mpc list artist' is the one command it runs.    *)
(***************************************************************************)
ArtistMisses(query, d, st) ==
    LET a == find_artist(query, d, st) IN a.exc = "" /\ a.ret = None

C13_ArtistMissIsSongMiss ==
    (answer.op = "song" /\ ArtistMisses(probe.artist, db, probe.st))
       => /\ answer.res.exc = ""
          /\ answer.res.ret = None
          /\ answer.res.calls = <<ListArtistCmd>>

\* find_song called with an artist query that matches none of the artists of
\* a database that has some.
Witness_C13_ArtistMissIsSongMiss ==
    /\ answer.op = "song"
    /\ probe.artist = Q_x
    /\ probe.title = Q_ca
    /\ Len(db) = 3
    /\ answer.res = Exec(<<ListArtistCmd>>, "", None)

(***************************************************************************)
(* C14.  For a non-empty artist list, find_artist returns the first artist *)
(* of maximal similarity to the query, and no match exactly when that      *)
(* maximum does not exceed the threshold; and a query that equals an       *)
(* artist name, case ignored, gets an artist of that name.  Fails on the   *)
(* last part: the score is rounded to an integer, so an earlier name of    *)
(* 101 characters that differs from the query by one character scores 100  *)
(* as well and is returned.                                                *)
(***************************************************************************)
ArtistsOf(d) == Lines(StdoutListArtist(d))

Similarity(query, name) == Ratio(Lower(query), Lower(name))

BestScore(query, names) ==
    CHOOSE m \in {Similarity(query, names[i]) : i \in 1..Len(names)} :
       \A i \in 1..Len(names) : Similarity(query, names[i]) <= m

FirstBest(query, names) ==
    names[CHOOSE i \in 1..Len(names) :
             /\ Similarity(query, names[i]) = BestScore(query, names)
             /\ \A j \in 1..(i - 1) :
                   Similarity(query, names[j]) < BestScore(query, names)]

\* The part of C14 about the maximum, the ties and the threshold, which holds.
C14_ArtistIsFirstBest ==
    (answer.op = "artist" /\ answer.res.exc = "" /\ ArtistsOf(db) # <<>>)
       => LET best == BestScore(probe.artist, ArtistsOf(db))
          IN  /\ best > threshold
                    => answer.res.ret = FirstBest(probe.artist, ArtistsOf(db))
              /\ answer.res.ret = None <=> best <= threshold

Witness_C14_ArtistIsFirstBest ==
    /\ answer.op = "artist"
    /\ probe.artist = Q_AB
    /\ Len(ArtistsOf(db)) = 2
    /\ answer.res.ret = <<"A", "b">>

C14_ArtistIsBestAndExact ==
    (answer.op = "artist" /\ answer.res.exc = "" /\ ArtistsOf(db) # <<>>)
       => LET names == ArtistsOf(db)
              best == BestScore(probe.artist, names)
          IN  /\ best > threshold => answer.res.ret = FirstBest(probe.artist, names)
              /\ answer.res.ret = None <=> best <= threshold
              /\ (\E i \in 1..Len(names) : Lower(names[i]) = Lower(probe.artist))
                    => /\ answer.res.ret # None
                       /\ Lower(answer.res.ret) = Lower(probe.artist)

(***************************************************************************)
(* C15.  For an utterance whose first token is "play" and whose remainder  *)
(* holds " by ", the title query is what precedes the first " by " and the *)
(* artist query all that follows it: the dispatch is that of lines 153-158 *)
(* on these two.  Fails: line 151 splits at every " by ", and "play ca by  *)
(* x by ab" asks for the artist "x".                                       *)
(***************************************************************************)
BeforeFirst(s, sep) == SplitOn(s, sep)[1]

AfterFirst(s, sep) == SubSeq(s, Len(BeforeFirst(s, sep)) + Len(sep) + 1, Len(s))

C15_SplitAtFirstBy ==
    [][(/\ Dispatching
        /\ pending_text \notin Vocabulary
        /\ FirstToken(pending_text) = W_play
        /\ Len(Pieces(pending_text)) > 1
        /\ pc' = "read")
          => \E st \in MpcStates :
                LET e == PlayBy(<<BeforeFirst(Remainder(pending_text), By),
                                  AfterFirst(Remainder(pending_text), By)>>, db, st)
                IN  calls' = e.calls /\ raised' = e.exc]_vars

(***************************************************************************)
(* C16.  For an utterance whose first token is "shuffle" and whose         *)
(* remainder holds no " by ", the artist query is the whole remainder: the *)
(* dispatch is that of lines 166-169 with find_artist called on it.        *)
(* Fails: line 166 joins split[1:], which is empty, and "shuffle ab" asks  *)
(* for the artist "".                                                      *)
(***************************************************************************)
\* lines 166-169 with query as the argument of find_artist
ShuffleOf(query, d, st) == ShuffleArtist(<<<<>>, query>>, d, st)

C16_ShuffleQueryIsRemainder ==
    [][(/\ Dispatching
        /\ IsShuffleBy(pending_text)
        /\ Len(Pieces(pending_text)) = 1
        /\ pc' = "read")
          => \E st \in MpcStates :
                LET e == ShuffleOf(Remainder(pending_text), db, st)
                IN  calls' = e.calls /\ raised' = e.exc]_vars

(***************************************************************************)
(* C17.  A 'shuffle <artist>' dispatch that resolves its artist and runs   *)
(* to its end issues, after the artist listing, 'clear', 'findadd',        *)
(* 'shuffle' and 'play' in this order.  Fails: lines 167-169 run 'clear',  *)
(* 'findadd' and 'play', and never 'shuffle'.                              *)
(***************************************************************************)
RECURSIVE QueueOps(_)
QueueOps(cs) ==
    IF cs = <<>> THEN <<>>
    ELSE IF IsList(Head(cs)) THEN QueueOps(Tail(cs))
    ELSE <<Head(cs).op>> \o QueueOps(Tail(cs))

C17_ShuffleArtistShuffles ==
    [][(/\ Dispatching
        /\ IsShuffleBy(pending_text)
        /\ pc' = "read"
        /\ raised' = "")
          => QueueOps(calls') = <<"clear", "findadd", "shuffle", "play">>]_vars

(***************************************************************************)
(* C18.  An interrupt ends the loop between two iterations only, never     *)
(* inside a dispatch: the loop is never left with a dispatch begun, the    *)
(* queue cleared and nothing added.  Fails: KeyboardInterrupt is no        *)
(* Exception, line 174 does not catch it, and a Ctrl+C after 'mpc clear'   *)
(* ends the loop there.                                                    *)
(***************************************************************************)
InterruptedInDispatch ==
    /\ pc = "exited"
    /\ exitCause = "KeyboardInterrupt"
    /\ Truthy(pending_text)
    /\ dispatched = finalized

C18_InterruptAtBoundaryOnly ==
    ~(/\ InterruptedInDispatch
      /\ calls # <<>>
      /\ calls[Len(calls)].op = "clear")

(***************************************************************************)
(* C19.  Within one 'play <title> by <artist>' dispatch the three listings *)
(* see one database, that of the first, whatever update MPD makes          *)
(* meanwhile: the dispatch is the one an unchanged database gives, and the *)
(* track asked of 'findadd' is, in that database, a track of the artist    *)
(* asked.  Fails: each listing is an mpc process of its own and sees the   *)
(* database of its moment.                                                 *)
(***************************************************************************)
C19_OneSnapshot ==
    answer.op = "play"
       => /\ answer.res = PlayBy(<<probe.title, probe.artist>>, db, probe.st)
          /\ \A i \in 1..Len(answer.res.calls) :
                (answer.res.calls[i].op = "findadd" /\ Truthy(answer.res.calls[i].title))
                   => \E k \in 1..Len(db) :
                         /\ db[k].artist = answer.res.calls[i].artist
                         /\ db[k].title = answer.res.calls[i].title

(***************************************************************************)
(* C20.  Over an unchanged database find_artist called on a name it        *)
(* returned returns that name again, so in lines 153-158 the artist whose  *)
(* titles are listed is the artist asked of 'findadd'.  Fails: names of    *)
(* 100 and 101 characters that differ by one character score 100 against   *)
(* each other, and the second call returns the earlier of the two.         *)
(***************************************************************************)
C20_ResolutionIdempotent ==
    /\ (answer.op = "artist" /\ answer.res.exc = "" /\ answer.res.ret # None)
          => (answer.again.exc = "" /\ answer.again.ret = answer.res.ret)
    /\ (answer.op = "play" /\ answer.d2 = db /\ answer.d3 = db)
          => \A i, j \in 1..Len(answer.res.calls) :
                (/\ answer.res.calls[i].op = "list title artist"
                 /\ answer.res.calls[j].op = "findadd")
                   => answer.res.calls[i].artist = answer.res.calls[j].artist

====
